---- MODULE Spec2Model ----
(***************************************************************************)
(* Model of the actix adapter of oxide-auth (oxide-auth-actix/src/lib.rs): *)
(* the request adapters OAuthRequest and OAuthResource, the response       *)
(* builder OAuthResponse, the unified error WebError with its conversions, *)
(* and the OxideOperation / OxideMessage envelope.                         *)
(*                                                                         *)
(* Strings and header values are sequences of byte codes.  Option<T> is a  *)
(* sequence of length 0 (None) or 1 (Some).  Result<T, E> is a record      *)
(* [tag, val, err].  A behaviour follows the life of one value of the      *)
(* library: one incoming HTTP request, one response under construction,    *)
(* one foreign error being converted, or one operation being dispatched.   *)
(***************************************************************************)
EXTENDS Integers, Sequences, FiniteSets, TLC

VARIABLES
    http,       \* Option: the incoming HttpRequest [auths, query, form]
    payload,    \* "unread" | "consumed": the request Payload
    pending,    \* the futures of OAuthRequest::new that are reading the form,
                \* each [query_res, form_res]
    resolved,   \* Option: the future of OAuthRequest::new that resolved last
    request,    \* Option<OAuthRequest> [auth, query, body]: what it resolved to
    newErr,     \* Option<WebError kind>: the error it resolved to
    resource,   \* Option<OAuthResource> [auth]: what OAuthResource::new gave
    resErr,     \* Option<WebError kind>: the error OAuthResource::new gave
    converted,  \* Option<OAuthRequest>: what into_request made of the guard
    last,       \* the last trait call: [on, op, arg, res]
    response,   \* Option<OAuthResponse> [status, headers, body]
    foreign,    \* Option: a foreign error value about to be converted
    weberr,     \* Option<WebError>: the result of the conversion
    rendered,   \* Option<HttpResponse> [status, headers, body]
    created,    \* Option: the operation as the caller created it
    endpoint,   \* Option: the engine the operation is run against
    operation,  \* Option<T: OxideOperation>: the operation value, while owned
    message,    \* Option<OxideMessage<T>>: the envelope, while it exists
    trips,      \* how many times the operation has been unwrapped
    reply       \* Option<Result<Item, Error>>: the reply of the run

vars == << http, payload, pending, resolved, request, newErr, resource, resErr,
           converted, last, response, foreign, weberr, rendered, created, endpoint,
           operation, message, trips, reply >>

reqVars == << http, payload, pending, resolved, request, newErr, resource, resErr,
              converted >>
errVars == << foreign, weberr >>
opVars == << created, endpoint, operation, message, trips, reply >>

(***************************************************************************)
(* Bounds of the model.                                                    *)
(***************************************************************************)
MaxLen == 2
MaxAuthHeaders == 2
MaxFutures == 2
MaxNest == 1
MaxTrips == 2

(***************************************************************************)
(* Option and Result.                                                      *)
(***************************************************************************)
None == << >>
Some(v) == << v >>
IsSome(o) == Len(o) = 1
IsNone(o) == Len(o) = 0

Ok(v) == [tag |-> "Ok", val |-> v, err |-> "-"]
Err(k) == [tag |-> "Err", val |-> << >>, err |-> k]
Unit == << >>

\* Result::ok(): Ok(v) -> Some(v), Err(_) -> None
ResultOk(r) == IF r.tag = "Ok" THEN Some(r.val) ELSE None

\* A call record: the receiver (of a request accessor), the method, its
\* argument and what it returned
NoCall == [on |-> None, op |-> "-", arg |-> << >>, res |-> Ok(Unit)]
Call(op, arg, res) == [on |-> None, op |-> op, arg |-> arg, res |-> res]
CallOn(self, op, res) == [on |-> Some(self), op |-> op, arg |-> << >>, res |-> res]

\* All sequences over alphabet of length lo..hi
SeqsOf(alphabet, lo, hi) == UNION { [1..n -> alphabet] : n \in lo..hi }

(***************************************************************************)
(* Header values.                                                          *)
(***************************************************************************)
\* HeaderValue::to_str: every byte must be visible ASCII (or tab)
is_visible_ascii(b) == (b >= 32 /\ b < 127) \/ b = 9

to_str(hv) ==
    IF \A i \in 1..Len(hv) : is_visible_ascii(hv[i]) THEN Ok(hv) ELSE Err("ToStrError")

\* HeaderValue validity on construction: no control bytes except tab, no DEL
is_valid(b) == (b >= 32 /\ b /= 127) \/ b = 9

\* An error value is [t: type, k: variant, in: Option<payload>]
E(t, k, in) == [t |-> t, k |-> k, in |-> in]
W(k, in) == E("WebError", k, in)

InvalidHeaderValue == E("InvalidHeaderValue", "-", None)
InvalidHeaderValueBytes == E("InvalidHeaderValueBytes", "-", None)

\* HttpTryFrom<&str> for HeaderValue: the error is InvalidHeaderValue
HeaderValue_try_from_str(s) ==
    IF \A i \in 1..Len(s) : is_valid(s[i]) THEN Ok(s) ELSE Err(InvalidHeaderValue)

\* HttpTryFrom<String> for HeaderValue: the error is InvalidHeaderValueBytes
HeaderValue_try_from_String(s) ==
    IF \A i \in 1..Len(s) : is_valid(s[i]) THEN Ok(s) ELSE Err(InvalidHeaderValueBytes)

\* From<InvalidHeaderValue>
from_InvalidHeaderValue(e) == W("Header", Some(e))

\* From<InvalidHeaderValueBytes>
from_InvalidHeaderValueBytes(e) == W("HeaderBytes", Some(e))

(***************************************************************************)
(* Request adapters.                                                       *)
(***************************************************************************)
\* The Authorization extraction of OAuthRequest::new and OAuthResource::new:
\* get_all(AUTHORIZATION), next() twice; a second value is an error.
extract_auth(all_auth) ==
    IF Len(all_auth) >= 2
    THEN Err("Authorization")
    ELSE Ok(IF Len(all_auth) = 0
            THEN None
            ELSE ResultOk(to_str(all_auth[1])))

\* Variant: extraction validated eagerly, a form that does not parse is an error
OAuthRequest_new_eager(all_auth, query_res, form_res) ==
    LET auth == extract_auth(all_auth)
    IN  IF auth.tag = "Err" THEN Err(auth.err)
        ELSE IF form_res.tag = "Err" THEN Err("Form")
        ELSE IF query_res.tag = "Err" THEN Err("Query")
        ELSE Ok([auth |-> auth.val, query |-> Some(query_res.val),
                 body |-> Some(form_res.val)])

\* OAuthRequest::new, after the form future resolved with form_res
OAuthRequest_new(all_auth, query_res, form_res) ==
    LET body == ResultOk(form_res)
        query == ResultOk(query_res)
        auth == extract_auth(all_auth)
    IN  IF auth.tag = "Err"
        THEN Err(auth.err)
        ELSE Ok([auth |-> auth.val, query |-> query, body |-> body])

\* OAuthResource::new
OAuthResource_new(all_auth) ==
    LET auth == extract_auth(all_auth)
    IN  IF auth.tag = "Err" THEN Err(auth.err) ELSE Ok([auth |-> auth.val])

\* Variant: the converted request holds empty parameters instead of none
into_request_empty(o) == [query |-> Some(<< >>), body |-> Some(<< >>), auth |-> o.auth]

\* OAuthResource::into_request and From<OAuthResource> for OAuthRequest
into_request(o) == [query |-> None, body |-> None, auth |-> o.auth]

\* WebRequest::query
query(r) == IF IsSome(r.query) THEN Ok(r.query[1]) ELSE Err("Query")

\* OAuthRequest::query_mut: the caller writes p through the reference it
\* gets, if there is a query
query_mut(r, p) == [r EXCEPT !.query = IF IsSome(@) THEN Some(p) ELSE @]

\* WebRequest::urlbody
urlbody(r) == IF IsSome(r.body) THEN Ok(r.body[1]) ELSE Err("Body")

\* WebRequest::authheader
authheader(r) == Ok(r.auth)

(***************************************************************************)
(* Response builder.                                                       *)
(***************************************************************************)
OK == 200
FOUND == 302
BAD_REQUEST == 400
UNAUTHORIZED == 401
INTERNAL_SERVER_ERROR == 500

LOCATION == "location"
WWW_AUTHENTICATE == "www-authenticate"
CONTENT_TYPE == "content-type"
HeaderNames == { LOCATION, WWW_AUTHENTICATE, CONTENT_TYPE }

\* "text/plain" and "application/json" as bytes
TextPlain == << 116, 101, 120, 116, 47, 112, 108, 97, 105, 110 >>
ApplicationJson ==
    << 97, 112, 112, 108, 105, 99, 97, 116, 105, 111, 110, 47, 106, 115, 111, 110 >>

\* HeaderMap::new: no name has a value
HeaderMap_new == [n \in HeaderNames |-> << >>]

\* HeaderMap::insert: the value replaces every value the name had
insert(headers, name, value) == [headers EXCEPT ![name] = << value >>]

\* impl Default for OAuthResponse
OAuthResponse_default == [status |-> OK, headers |-> HeaderMap_new, body |-> None]

\* OAuthResponse::ok(), the constructor
OAuthResponse_ok == [status |-> OK, headers |-> HeaderMap_new, body |-> None]

\* A &mut self method returns the response it leaves behind and its result
Done(r, res) == [resp |-> r, res |-> res]

\* The kind of WebError that '?' makes of a header construction error
Question(e) ==
    IF e.t = "InvalidHeaderValue"
    THEN from_InvalidHeaderValue(e).k
    ELSE from_InvalidHeaderValueBytes(e).k

\* self.headers.insert(name, hv?): hv is the result of the conversion; '?'
\* returns the converted error and leaves r as it is at that point.
try_insert(r, name, hv) ==
    IF hv.tag = "Err"
    THEN Done(r, Err(Question(hv.err)))
    ELSE Done([r EXCEPT !.headers = insert(@, name, hv.val)], Ok(Unit))

\* Variant: the action ok taken for the constructor ok(), which starts afresh
ok_reset(r) == Done(OAuthResponse_ok, Ok(Unit))

\* WebResponse::ok
ok(r) == Done([r EXCEPT !.status = OK], Ok(Unit))

\* WebResponse::redirect; url is the string form of the Url (into_string)
redirect(r, url) ==
    try_insert([r EXCEPT !.status = FOUND], LOCATION, HeaderValue_try_from_String(url))

\* WebResponse::client_error
client_error(r) == Done([r EXCEPT !.status = BAD_REQUEST], Ok(Unit))

\* WebResponse::unauthorized
unauthorized(r, kind) ==
    try_insert([r EXCEPT !.status = UNAUTHORIZED], WWW_AUTHENTICATE,
               HeaderValue_try_from_str(kind))

\* Variant: body_text with the content type of body_json
body_text_json(r, text) ==
    try_insert([r EXCEPT !.body = Some(text)], CONTENT_TYPE,
               HeaderValue_try_from_str(ApplicationJson))

\* WebResponse::body_text
body_text(r, text) ==
    try_insert([r EXCEPT !.body = Some(text)], CONTENT_TYPE,
               HeaderValue_try_from_str(TextPlain))

\* WebResponse::body_json
body_json(r, json) ==
    try_insert([r EXCEPT !.body = Some(json)], CONTENT_TYPE,
               HeaderValue_try_from_str(ApplicationJson))

\* OAuthResponse::content_type, the consuming builder method: Ok(self) or the error
content_type(r, ct) ==
    LET d == try_insert(r, CONTENT_TYPE, HeaderValue_try_from_str(ct))
    IN  IF d.res.tag = "Err" THEN Err(d.res.err) ELSE Ok(d.resp)

\* OAuthResponse::body, the consuming builder method
body(r, b) == [r EXCEPT !.body = Some(b)]

\* Responder::respond_to: status, every header copied, the body if there is one
respond_to(r) == [status |-> r.status, headers |-> r.headers, body |-> r.body]

(***************************************************************************)
(* The unified error and the conversions into it.                          *)
(* An error value is [t: type, k: variant, in: Option<payload>].           *)
(***************************************************************************)
UnitKinds == { "Encoding", "Form", "Query", "Body", "Authorization", "Canceled", "Mailbox" }
WebErrorKinds == { "Endpoint", "Header", "HeaderBytes" } \cup UnitKinds

OAuthErrors ==
    { E("OAuthError", v, None) : v \in { "DenySilently", "PrimitiveError", "InvalidRequest" } }
MailboxErrors == { E("MailboxError", v, None) : v \in { "Closed", "Timeout" } }
BlockingCanceled == E("BlockingError", "Canceled", None)

\* Variant: every mailbox failure reported as canceled
from_MailboxError_canceled(e) == W("Canceled", None)

\* From<MailboxError>
from_MailboxError(e) ==
    IF e.k = "Closed" THEN W("Mailbox", None) ELSE W("Canceled", None)

\* From<OAuthError>
from_OAuthError(e) == W("Endpoint", Some(e))

\* From<Error<OAuthRequest>>
from_Error(e) ==
    IF e.k = "Web" THEN e.in[1] ELSE from_OAuthError(e.in[1])

RECURSIVE into(_)
\* From<BlockingError<E>>, E: Into<WebError>
from_BlockingError(e) ==
    IF e.k = "Canceled" THEN W("Canceled", None) ELSE into(e.in[1])

\* Into<WebError>, resolved by the type of the value
into(e) ==
    CASE e.t = "WebError" -> e
      [] e.t = "InvalidHeaderValue" -> from_InvalidHeaderValue(e)
      [] e.t = "InvalidHeaderValueBytes" -> from_InvalidHeaderValueBytes(e)
      [] e.t = "MailboxError" -> from_MailboxError(e)
      [] e.t = "OAuthError" -> from_OAuthError(e)
      [] e.t = "Error" -> from_Error(e)
      [] e.t = "BlockingError" -> from_BlockingError(e)

\* Variant: the failures a client causes rendered as 400
error_response_by_kind(w) ==
    [status |-> IF w.k \in { "Form", "Query", "Body", "Authorization", "Encoding" }
                THEN BAD_REQUEST
                ELSE INTERNAL_SERVER_ERROR,
     headers |-> HeaderMap_new, body |-> None]

\* impl ResponseError for WebError {}: the default error_response
error_response(w) ==
    [status |-> INTERNAL_SERVER_ERROR, headers |-> HeaderMap_new, body |-> None]

\* The values of WebError
WebErrors ==
    { W("Endpoint", Some(o)) : o \in OAuthErrors }
        \cup { W("Header", Some(InvalidHeaderValue)),
               W("HeaderBytes", Some(InvalidHeaderValueBytes)) }
        \cup { W(k, None) : k \in UnitKinds }

\* The values of Error<OAuthRequest>
EndpointErrors ==
    { E("Error", "Web", Some(w)) : w \in WebErrors }
        \cup { E("Error", "OAuth", Some(o)) : o \in OAuthErrors }

FlatErrors ==
    { InvalidHeaderValue, InvalidHeaderValueBytes, BlockingCanceled }
        \cup MailboxErrors \cup OAuthErrors \cup WebErrors \cup EndpointErrors

\* BlockingError<E> nested up to n deep around the flat errors
RECURSIVE Convertible(_)
Convertible(n) ==
    IF n = 0
    THEN FlatErrors
    ELSE LET S == Convertible(n - 1)
         IN  S \cup { E("BlockingError", "Error", Some(e)) : e \in S }

(***************************************************************************)
(* Operations and the dispatch envelope.                                   *)
(* An operation is [kind, req]: one of Authorize, Refresh, Resource,       *)
(* Token, holding the request it was created from.                         *)
(***************************************************************************)
OperationKinds == { "Authorize", "Refresh", "Resource", "Token" }

\* OxideOperation::wrap
wrap(op) == [inner |-> op]

\* OxideMessage::into_inner
into_inner(m) == m.inner

\* The engines an operation is run against: one that grants, one that denies,
\* one whose primitives fail.
Endpoints == { "grant", "deny", "failing" }

Bearer == << 66, 101, 97, 114, 101, 114 >>
ClientCallback == << 97, 58, 98 >>
TokenJson == << 123, 125 >>

\* OxideOperation::run against a stub engine.  Authorize reads the query,
\* Refresh and Token read the body, Resource reads the Authorization header;
\* the engine answers through the response actions.  The reply is
\* Ok(Some(response)) or Err(kind of WebError).
run(op, ep) ==
    LET r == OAuthResponse_default
        param == CASE op.kind = "Authorize" -> query(op.req)
                   [] op.kind = "Resource" -> authheader(op.req)
                   [] OTHER -> urlbody(op.req)
    IN  IF param.tag = "Err" THEN Err(param.err)
        ELSE IF ep = "failing"
        THEN Err(from_OAuthError(E("OAuthError", "PrimitiveError", None)).k)
        ELSE IF op.kind = "Resource" /\ (IsNone(param.val) \/ ep = "deny")
        THEN Ok(Some(unauthorized(r, Bearer).resp))
        ELSE IF ep = "deny" THEN Ok(Some(client_error(r).resp))
        ELSE IF op.kind = "Authorize" THEN Ok(Some(redirect(r, ClientCallback).resp))
        ELSE IF op.kind = "Resource" THEN Ok(Some(ok(r).resp))
        ELSE Ok(Some(body_json(r, TokenJson).resp))

(***************************************************************************)
(* Inputs.                                                                 *)
(***************************************************************************)
\* Bytes of an incoming header value: 'B' and an obs-text byte, both of which a
\* HeaderValue may hold
AuthBytes == { 66, 233 }

\* Header values: empty, "B", the obs-text byte, and "B" followed by it
AuthValues == { << >> } \cup { << b >> : b \in AuthBytes } \cup { << 66, 233 >> }

\* NormalizedParameter values: empty, and code=abc
Params == { << >>, << << "code", "abc" >> >> }
ParseResults == { Err("parse") } \cup { Ok(p) : p \in Params }

\* &str arguments of unauthorized and content_type: 'B' and a line feed
KindBytes == { 66, 10 }
KindStrings == SeqsOf(KindBytes, 1, MaxLen)

\* String forms of a Url: "a:b" and "a:%01"; a Url serialises to printable
\* ASCII, control characters percent-encoded
UrlStrings == { << 97, 58, 98 >>, << 97, 58, 37, 48, 49 >> }

\* Bodies: texts over 'x', and the JSON documents {} and []
Texts == SeqsOf({ 120 }, 0, MaxLen)
Jsons == { << 123, 125 >>, << 91, 93 >> }

\* The requests an operation is created from
OperationRequests ==
    { [auth |-> a, query |-> q, body |-> b] :
        a \in { None, Some(<< 66 >>) },
        q \in { None, Some(<< << "code", "abc" >> >>) },
        b \in { None, Some(<< >>) } }
Operations == { [kind |-> k, req |-> r] : k \in OperationKinds, r \in OperationRequests }

(***************************************************************************)
(* Initial states: one value of the library, freshly constructed.          *)
(***************************************************************************)
\* An HTTP request has arrived
InitRequest ==
    /\ http \in { Some([auths |-> a, query |-> q, form |-> f]) :
                    a \in SeqsOf(AuthValues, 0, MaxAuthHeaders),
                    q \in ParseResults,
                    f \in { Err("parse"), Ok(<< << "code", "abc" >> >>) } }
    /\ payload = "unread" /\ request = None /\ resource = None /\ newErr = None
    /\ pending = << >> /\ resolved = None /\ resErr = None /\ converted = None
    /\ last = NoCall /\ response = None /\ foreign = None /\ weberr = None
    /\ rendered = None /\ created = None /\ endpoint = None /\ operation = None
    /\ message = None /\ trips = 0 /\ reply = None

\* A response has been constructed
InitResponse ==
    /\ response \in { Some(OAuthResponse_default), Some(OAuthResponse_ok) }
    /\ http = None /\ payload = "unread" /\ request = None /\ resource = None
    /\ newErr = None /\ pending = << >> /\ resolved = None /\ resErr = None
    /\ converted = None /\ last = NoCall /\ foreign = None /\ weberr = None
    /\ rendered = None /\ created = None /\ endpoint = None /\ operation = None
    /\ message = None /\ trips = 0 /\ reply = None

\* A collaborator has failed with a foreign error
InitError ==
    /\ foreign \in { Some(e) : e \in Convertible(MaxNest) }
    /\ http = None /\ payload = "unread" /\ request = None /\ resource = None
    /\ newErr = None /\ pending = << >> /\ resolved = None /\ resErr = None
    /\ converted = None /\ last = NoCall /\ response = None /\ weberr = None
    /\ rendered = None /\ created = None /\ endpoint = None /\ operation = None
    /\ message = None /\ trips = 0 /\ reply = None

\* An operation has been created and an engine is at hand
InitOperation ==
    /\ created \in { Some(o) : o \in Operations }
    /\ operation = created
    /\ endpoint \in { Some(e) : e \in Endpoints }
    /\ message = None /\ trips = 0 /\ reply = None
    /\ http = None /\ payload = "unread" /\ request = None /\ resource = None
    /\ newErr = None /\ pending = << >> /\ resolved = None /\ resErr = None
    /\ converted = None /\ last = NoCall /\ response = None /\ foreign = None
    /\ weberr = None /\ rendered = None

Init == InitRequest \/ InitResponse \/ InitError \/ InitOperation

(***************************************************************************)
(* Actions of the request adapters.  Both constructors borrow the HTTP     *)
(* request, so each can be called on it at any time and any number of      *)
(* times, whatever was extracted from it before.                           *)
(***************************************************************************)
\* What the form future will resolve with: the parse of the body if this
\* extractor is the one that takes the payload; if the payload was taken
\* before, there is no body left to read, and the extractor fails or parses
\* the empty body
FormResults ==
    IF payload = "unread" THEN { http[1].form } ELSE { Err("parse"), Ok(<< >>) }

\* The sequence without its i-th element
Remove(seq, i) == [j \in 1..(Len(seq) - 1) |-> IF j < i THEN seq[j] ELSE seq[j + 1]]

\* FromRequest for OAuthRequest: the call of OAuthRequest::new.  The query is
\* parsed, the form extractor takes the payload, and the future is returned;
\* nothing else happens until the form has been read.
StartRequest ==
    /\ IsSome(http) /\ Len(pending) < MaxFutures
    /\ \E f \in FormResults :
        pending' = Append(pending, [query_res |-> http[1].query, form_res |-> f])
    /\ payload' = "consumed"
    /\ UNCHANGED << http, resolved, request, newErr, resource, resErr, converted >>
    /\ UNCHANGED << last, response, rendered >>
    /\ UNCHANGED errVars /\ UNCHANGED opVars

\* A form future resolves: the closure reads the Authorization headers of
\* the cloned request and gives the request or the error
FinishRequest ==
    /\ \E i \in 1..Len(pending) :
        LET f == pending[i]
            res == OAuthRequest_new(http[1].auths, f.query_res, f.form_res)
        IN  /\ request' = ResultOk(res)
            /\ newErr' = IF res.tag = "Err" THEN Some(res.err) ELSE None
            /\ resolved' = Some(f)
            /\ pending' = Remove(pending, i)
    /\ UNCHANGED << http, payload, resource, resErr, converted >>
    /\ UNCHANGED << last, response, rendered >>
    /\ UNCHANGED errVars /\ UNCHANGED opVars

\* A future is dropped before the form has been read: the payload stays
\* taken and the future gives neither a request nor an error
DropRequest ==
    /\ \E i \in 1..Len(pending) : pending' = Remove(pending, i)
    /\ UNCHANGED << http, payload, resolved, request, newErr, resource, resErr, converted >>
    /\ UNCHANGED << last, response, rendered >>
    /\ UNCHANGED errVars /\ UNCHANGED opVars

\* FromRequest for OAuthResource: OAuthResource::new
NewResource ==
    /\ IsSome(http)
    /\ LET res == OAuthResource_new(http[1].auths)
       IN  /\ resource' = ResultOk(res)
           /\ resErr' = IF res.tag = "Err" THEN Some(res.err) ELSE None
    /\ UNCHANGED << http, payload, pending, resolved, request, newErr, converted >>
    /\ UNCHANGED << last, response, rendered >>
    /\ UNCHANGED errVars /\ UNCHANGED opVars

\* OAuthResource::into_request: the guard value is moved into a request
IntoRequest ==
    /\ IsSome(resource)
    /\ converted' = Some(into_request(resource[1]))
    /\ resource' = None
    /\ UNCHANGED << http, payload, pending, resolved, request, newErr, resErr >>
    /\ UNCHANGED << last, response, rendered >>
    /\ UNCHANGED errVars /\ UNCHANGED opVars

\* OAuthRequest::query_mut, and a write through the reference, on either
\* request value
QueryMut ==
    /\ \E p \in Params :
        \/ /\ IsSome(request)
           /\ request' = Some(query_mut(request[1], p))
           /\ UNCHANGED converted
        \/ /\ IsSome(converted)
           /\ converted' = Some(query_mut(converted[1], p))
           /\ UNCHANGED request
    /\ UNCHANGED << http, payload, pending, resolved, newErr, resource, resErr >>
    /\ UNCHANGED << last, response, rendered >>
    /\ UNCHANGED errVars /\ UNCHANGED opVars

\* The request values a handler can hold
Receivers == { o[1] : o \in { o \in { request, converted } : IsSome(o) } }

CallQuery ==
    /\ \E self \in Receivers : last' = CallOn(self, "query", query(self))
    /\ UNCHANGED << reqVars, response, rendered >>
    /\ UNCHANGED errVars /\ UNCHANGED opVars

CallUrlbody ==
    /\ \E self \in Receivers : last' = CallOn(self, "urlbody", urlbody(self))
    /\ UNCHANGED << reqVars, response, rendered >>
    /\ UNCHANGED errVars /\ UNCHANGED opVars

CallAuthheader ==
    /\ \E self \in Receivers : last' = CallOn(self, "authheader", authheader(self))
    /\ UNCHANGED << reqVars, response, rendered >>
    /\ UNCHANGED errVars /\ UNCHANGED opVars

(***************************************************************************)
(* Actions of the response builder.                                        *)
(***************************************************************************)
\* A &mut self action: the response is left as the method left it
Act(op, arg, d) ==
    /\ response' = Some(d.resp)
    /\ last' = Call(op, arg, d.res)
    /\ UNCHANGED << reqVars, rendered >>
    /\ UNCHANGED errVars /\ UNCHANGED opVars

DoOk == IsSome(response) /\ Act("ok", << >>, ok(response[1]))

DoRedirect ==
    /\ IsSome(response)
    /\ \E url \in UrlStrings : Act("redirect", url, redirect(response[1], url))

DoClientError ==
    IsSome(response) /\ Act("client_error", << >>, client_error(response[1]))

DoUnauthorized ==
    /\ IsSome(response)
    /\ \E kind \in KindStrings : Act("unauthorized", kind, unauthorized(response[1], kind))

DoBodyText ==
    /\ IsSome(response)
    /\ \E text \in Texts : Act("body_text", text, body_text(response[1], text))

DoBodyJson ==
    /\ IsSome(response)
    /\ \E json \in Jsons : Act("body_json", json, body_json(response[1], json))

\* The consuming builder: on failure the response is dropped with the error
DoContentType ==
    /\ IsSome(response)
    /\ \E ct \in KindStrings :
        LET res == content_type(response[1], ct)
        IN  /\ response' = ResultOk(res)
            /\ last' = Call("content_type", ct,
                            IF res.tag = "Err" THEN Err(res.err) ELSE Ok(Unit))
    /\ UNCHANGED << reqVars, rendered >>
    /\ UNCHANGED errVars /\ UNCHANGED opVars

DoBody ==
    /\ IsSome(response)
    /\ \E b \in Texts :
        /\ response' = Some(body(response[1], b))
        /\ last' = Call("body", b, Ok(Unit))
    /\ UNCHANGED << reqVars, rendered >>
    /\ UNCHANGED errVars /\ UNCHANGED opVars

\* Responder::respond_to consumes the response
RespondTo ==
    /\ IsSome(response)
    /\ rendered' = Some(respond_to(response[1]))
    /\ response' = None
    /\ UNCHANGED << reqVars, last >>
    /\ UNCHANGED errVars /\ UNCHANGED opVars

(***************************************************************************)
(* Actions of the error unifier.                                           *)
(***************************************************************************)
\* From::from / Into::into of the foreign error
Convert ==
    /\ IsSome(foreign) /\ IsNone(weberr)
    /\ weberr' = Some(into(foreign[1]))
    /\ UNCHANGED << reqVars, last, response, rendered, foreign >>
    /\ UNCHANGED opVars

\* ResponseError::error_response of the unified error
RenderError ==
    /\ IsSome(weberr) /\ IsNone(rendered)
    /\ rendered' = Some(error_response(weberr[1]))
    /\ UNCHANGED << reqVars, last, response >>
    /\ UNCHANGED errVars /\ UNCHANGED opVars

(***************************************************************************)
(* Actions of the dispatch path.                                           *)
(***************************************************************************)
\* wrap(self): the operation moves into the envelope
Wrap ==
    /\ IsSome(operation) /\ trips < MaxTrips
    /\ message' = Some(wrap(operation[1]))
    /\ operation' = None
    /\ UNCHANGED << reqVars, last, response, rendered, created, endpoint, trips, reply >>
    /\ UNCHANGED errVars

\* into_inner(self): the envelope gives the operation back
IntoInner ==
    /\ IsSome(message)
    /\ operation' = Some(into_inner(message[1]))
    /\ message' = None
    /\ trips' = trips + 1
    /\ UNCHANGED << reqVars, last, response, rendered, created, endpoint, reply >>
    /\ UNCHANGED errVars

\* run(self, endpoint): the operation is consumed, the reply is its result
Run ==
    /\ IsSome(operation)
    /\ reply' = Some(run(operation[1], endpoint[1]))
    /\ operation' = None
    /\ UNCHANGED << reqVars, last, response, rendered, created, endpoint, message, trips >>
    /\ UNCHANGED errVars

Next ==
    \/ StartRequest \/ FinishRequest \/ DropRequest \/ NewResource \/ IntoRequest
    \/ QueryMut \/ CallQuery \/ CallUrlbody \/ CallAuthheader
    \/ DoOk \/ DoRedirect \/ DoClientError \/ DoUnauthorized
    \/ DoBodyText \/ DoBodyJson \/ DoContentType \/ DoBody \/ RespondTo
    \/ Convert \/ RenderError
    \/ Wrap \/ IntoInner \/ Run

Spec == Init /\ [][Next]_vars

(***************************************************************************)
(* Properties.                                                             *)
(***************************************************************************)
\* The header values the constructors were given
Auths == http[1].auths

\* OAuthRequest::new has acted when one of its futures has resolved,
\* OAuthResource::new when it has given a guard or an error; a guard that was
\* converted is gone
RequestBuilt == IsSome(http) /\ IsSome(resolved)
ResourceBuilt == IsSome(http) /\ (IsSome(resource) \/ IsSome(resErr))

\* The last call was authheader() on a request value
AuthheaderCalled == IsSome(last.on) /\ last.op = "authheader"

\* C1: for both adapters and every header collection: exactly one
\* Authorization header -> construction succeeds and auth (and authheader())
\* is that header's value unchanged; two or more -> construction fails with
\* Authorization and no request object exists; none -> construction succeeds,
\* auth is None and authheader() is Ok(None).
C1_AuthorizationPreserved ==
    IsSome(http) =>
        /\ Len(Auths) = 1 =>
            /\ IsNone(newErr) /\ IsNone(resErr)
            /\ RequestBuilt => IsSome(request) /\ request[1].auth = Some(Auths[1])
            /\ ResourceBuilt => IsSome(resource) /\ resource[1].auth = Some(Auths[1])
            /\ AuthheaderCalled => last.res = Ok(Some(Auths[1]))
        /\ Len(Auths) >= 2 =>
            /\ IsNone(request) /\ IsNone(resource) /\ IsNone(converted)
            /\ RequestBuilt => newErr = Some("Authorization")
            /\ ResourceBuilt => resErr = Some("Authorization")
        /\ Len(Auths) = 0 =>
            /\ IsNone(newErr) /\ IsNone(resErr)
            /\ RequestBuilt => IsSome(request) /\ request[1].auth = None
            /\ ResourceBuilt => IsSome(resource) /\ resource[1].auth = None
            /\ AuthheaderCalled => last.res = Ok(None)

\* C2: with at most one Authorization header OAuthRequest::new succeeds
\* whether or not query and form parse; a field that failed to parse is
\* absent and one that parsed is present (the body with the parsed form; the
\* query may since have been rewritten through query_mut); on any request
\* value query() fails with Query exactly when the query is absent,
\* urlbody() fails with Body exactly when the body is absent, both give the
\* field otherwise, and authheader() always succeeds.
C2_DeferredExtraction ==
    /\ RequestBuilt =>
        LET f == resolved[1]
        IN  /\ Len(Auths) <= 1 => IsSome(request) /\ IsNone(newErr)
            /\ IsSome(request) =>
                LET r == request[1]
                IN  /\ IsNone(r.query) <=> f.query_res.tag = "Err"
                    /\ IsNone(r.body) <=> f.form_res.tag = "Err"
                    /\ IsSome(r.body) => r.body = Some(f.form_res.val)
    /\ IsSome(last.on) =>
        LET self == last.on[1]
        IN  /\ last.op = "query" =>
                /\ last.res = Err("Query") <=> IsNone(self.query)
                /\ IsSome(self.query) => last.res = Ok(self.query[1])
            /\ last.op = "urlbody" =>
                /\ last.res = Err("Body") <=> IsNone(self.body)
                /\ IsSome(self.body) => last.res = Ok(self.body[1])
            /\ last.op = "authheader" => last.res.tag = "Ok"

\* A request whose form did not parse was built, next to a guard of the same
\* HTTP request, and only the read of its body failed
C2_Witness ==
    /\ RequestBuilt /\ IsSome(request) /\ IsSome(resource)
    /\ resolved[1].form_res.tag = "Err" /\ resolved[1].query_res.tag = "Ok"
    /\ Len(Auths) = 1
    /\ last.on = request
    /\ last.op = "urlbody" /\ last.res = Err("Body")

\* The string form of a Url is always a valid header value, so redirect has
\* no failing call; unauthorized, which takes any text, has one, and it
\* leaves the status it had already set.
RedirectNeverFails ==
    /\ last.op = "redirect" => last.res.tag = "Ok"
    /\ IsSome(response) /\ last.op = "unauthorized" /\ last.res.tag = "Err" =>
        response[1].status = 401

\* C4: a new response is 200 with no headers and no body, and each
\* successful action leaves the fields it owns as tabulated, whatever they
\* held before.
C4_ActionTable ==
    IsSome(response) =>
        LET r == response[1]
        IN  /\ last.op = "-" =>
                r.status = 200 /\ r.body = None /\ \A n \in HeaderNames : r.headers[n] = << >>
            /\ last.res.tag = "Ok" =>
                /\ last.op = "ok" => r.status = 200
                /\ last.op = "client_error" => r.status = 400
                /\ last.op = "redirect" =>
                    r.status = 302 /\ r.headers[LOCATION] = << last.arg >>
                /\ last.op = "unauthorized" =>
                    r.status = 401 /\ r.headers[WWW_AUTHENTICATE] = << last.arg >>
                /\ last.op = "body_text" =>
                    r.body = Some(last.arg) /\ r.headers[CONTENT_TYPE] = << TextPlain >>
                /\ last.op = "body_json" =>
                    r.body = Some(last.arg) /\ r.headers[CONTENT_TYPE] = << ApplicationJson >>

\* body_text has overwritten the body and content type on a response that a
\* redirect and an unauthorized had already shaped
C4_Witness ==
    /\ IsSome(response)
    /\ last.op = "body_text" /\ last.res.tag = "Ok" /\ last.arg = << 120 >>
    /\ response[1].status = 401
    /\ response[1].headers[LOCATION] /= << >>
    /\ response[1].headers[CONTENT_TYPE] = << TextPlain >>

\* What one step of a response action leaves alone
C5_FrameStep ==
    IsSome(response) /\ IsSome(response') =>
        LET r == response[1]
            s == response'[1]
            op == last'.op
            Kept(names) == \A n \in names : s.headers[n] = r.headers[n]
        IN  /\ op \in { "ok", "client_error" } => s.headers = r.headers /\ s.body = r.body
            /\ op = "redirect" => s.body = r.body /\ Kept(HeaderNames \ { LOCATION })
            /\ op = "unauthorized" =>
                s.body = r.body /\ Kept(HeaderNames \ { WWW_AUTHENTICATE })
            /\ op \in { "body_text", "body_json" } =>
                s.status = r.status /\ Kept(HeaderNames \ { CONTENT_TYPE })

\* C5: ok and client_error change neither headers nor body; redirect changes
\* only status and Location; unauthorized only status and WWW-Authenticate;
\* body_text and body_json only body and Content-Type, not the status; so a
\* header stays until an action owning its name overwrites it, and each
\* header name holds at most one value.
C5_Frame ==
    /\ [][C5_FrameStep]_vars
    /\ [](IsSome(response) => \A n \in HeaderNames : Len(response[1].headers[n]) <= 1)

\* An ok after a redirect, an unauthorized and a body: all three are kept
C5_Witness ==
    /\ IsSome(response)
    /\ last.op = "ok"
    /\ response[1].status = 200
    /\ response[1].headers[LOCATION] /= << >>
    /\ response[1].headers[WWW_AUTHENTICATE] /= << >>
    /\ response[1].headers[CONTENT_TYPE] = << ApplicationJson >>
    /\ IsSome(response[1].body)

\* Where a foreign failure comes from
Origin(e) ==
    CASE e.t \in { "InvalidHeaderValue", "InvalidHeaderValueBytes" } -> "header-construction"
      [] e.t = "BlockingError" /\ e.k = "Canceled" -> "canceled"
      [] e.t = "MailboxError" /\ e.k = "Closed" -> "queue"
      [] e.t = "MailboxError" /\ e.k = "Timeout" -> "timeout"
      [] e.t = "OAuthError" -> "protocol"
      [] e.t = "Error" /\ e.k = "OAuth" -> "protocol"
      [] OTHER -> "nested"

\* A unified error nested in a blocking error or in the engine's Web variant
\* comes out as it went in
PassesThrough ==
    LET e == foreign[1]
    IN  /\ e.t = "Error" /\ e.k = "Web" => weberr[1] = e.in[1]
        /\ e.t = "BlockingError" /\ e.k = "Error" /\ e.in[1].t = "WebError" =>
            weberr[1] = e.in[1]

\* No failure of another origin, among `others`, converts to the kind the
\* converted failure got
KindIsItsOwn(others) ==
    LET o == Origin(foreign[1])
    IN  o /= "nested" =>
            \A e \in FlatErrors :
                Origin(e) \in others \ { o } => into(e).k /= weberr[1].k

Origins == { "header-construction", "canceled", "queue", "timeout", "protocol" }

\* C6 as stated: each of the five origins converts to a kind that no other
\* of them converts to, and a nested unified error passes through unchanged.
C6_KindsPairwiseDistinct ==
    IsSome(foreign) /\ IsSome(weberr) => KindIsItsOwn(Origins) /\ PassesThrough

\* C6 as amended: a canceled background operation and a dispatch timeout
\* both convert to Canceled; apart from that pair, no two origins convert to
\* the same kind, and a nested unified error passes through unchanged.
C6_KindsDistinctButCanceled ==
    IsSome(foreign) /\ IsSome(weberr) =>
        LET o == Origin(foreign[1])
        IN  /\ o \in { "canceled", "timeout" } =>
                weberr[1].k = "Canceled" /\ KindIsItsOwn(Origins \ { "canceled", "timeout" })
            /\ o \notin { "canceled", "timeout" } => KindIsItsOwn(Origins)
            /\ PassesThrough

\* A dispatch timeout has been converted, to Canceled
C6_Witness ==
    /\ foreign = Some(E("MailboxError", "Timeout", None))
    /\ weberr = Some(W("Canceled", None))

\* C8: rendered as a response, every kind of the unified error has status
\* 500.
C8_AlwaysInternalServerError ==
    IsSome(weberr) /\ IsSome(rendered) => rendered[1].status = 500

\* An invalid-authorization error, a failure the client caused, was rendered
C8_Witness ==
    /\ weberr = Some(W("Authorization", None))
    /\ IsSome(rendered)

\* The step in which the guard becomes a request
C9_ConversionStep ==
    IsSome(resource) /\ IsNone(resource') =>
        /\ IsSome(converted')
        /\ converted'[1].auth = resource[1].auth
        /\ IsNone(converted'[1].query) /\ IsNone(converted'[1].body)

\* A step that makes a guard takes no payload and starts no form future
C9_GuardStep ==
    IsSome(resource') /\ resource' /= resource =>
        /\ payload' = payload /\ pending' = pending
        /\ resource'[1].auth \in { None } \cup { Some(Auths[i]) : i \in 1..Len(Auths) }

\* C9: the guard reads only the Authorization header and leaves the payload
\* unread; the request it converts into has the guard's auth and neither
\* query nor body, so authheader() returns that auth, query() fails with
\* Query and urlbody() fails with Body.
C9_GuardConversion ==
    /\ [][C9_ConversionStep]_vars
    /\ [][C9_GuardStep]_vars
    /\ [](IsSome(converted) =>
            /\ IsNone(converted[1].query) /\ IsNone(converted[1].body)
            /\ last.on = converted =>
                /\ last.op = "authheader" => last.res = Ok(converted[1].auth)
                /\ last.op = "query" => last.res = Err("Query")
                /\ last.op = "urlbody" => last.res = Err("Body"))

\* The guard of a request with a parseable query and form was converted while
\* the payload was still unread, and the read of the query failed
C9_Witness ==
    /\ IsSome(converted) /\ payload = "unread"
    /\ http[1].query.tag = "Ok" /\ http[1].form.tag = "Ok"
    /\ IsSome(converted[1].auth)
    /\ last.on = converted
    /\ last.op = "query" /\ last.res = Err("Query")

====
